---- MODULE Spec2Model ----
(***************************************************************************)
(* A model of package rfc5424: the RFC 5424 encoder of marshal.go          *)
(* (escapeSDParam, assertValid, MarshalBinary) and the tag-driven type     *)
(* analysis and its process-wide cache of reflect.go (reflectImpl,         *)
(* Reflect).                                                               *)
(*                                                                         *)
(* Go strings and []byte are sequences of bytes (0..255).  A byte string   *)
(* literal is written as a tuple with the text in a comment.               *)
(***************************************************************************)
EXTENDS Integers, Sequences, FiniteSets, TLC

VARIABLES
    esc,              \* escapeSDParam run: [s, t, pc]
    mar,              \* MarshalBinary run: [m, res, pc]
    ref,              \* reflectImpl run:   [t, res, pc]
    reflectionCache,  \* reflect.go:72  map type name -> list of *reflection
    procs,            \* per goroutine: position in Reflect and its locals
    heap,             \* allocation counter, reflectImpl run counts, fatal flag
    last              \* the last completed sequential Reflect call

vars == <<esc, mar, ref, reflectionCache, procs, heap, last>>

----------------------------------------------------------------------------
(* Byte-string helpers *)

\* n copies of byte c
Rep(c, n) == [i \in 1..n |-> c]

RECURSIVE Concat(_)
\* concatenation of a sequence of byte strings
Concat(ss) == IF ss = <<>> THEN <<>> ELSE Head(ss) \o Concat(Tail(ss))

\* all sequences over alphabet A of length at most n
SeqsUpTo(A, n) == UNION {[1..k -> A] : k \in 0..n}

----------------------------------------------------------------------------
(* marshal.go: escapeSDParam *)

\* the case labels of both switch statements: '\\', '"', ']'
IsEscaped(c) == c \in {92, 34, 93}

\* first loop: count the bytes that need an escape
RECURSIVE escapeCountFrom(_, _)
escapeCountFrom(s, i) ==
    IF i > Len(s) THEN 0
    ELSE (IF IsEscaped(s[i]) THEN 1 ELSE 0) + escapeCountFrom(s, i + 1)

\* second loop: fill t[j..] from s[i..]; indices here are 1-based
RECURSIVE escapeFill(_, _, _, _)
escapeFill(s, i, j, t) ==
    IF i > Len(s) THEN t
    ELSE IF IsEscaped(s[i])
         THEN escapeFill(s, i + 1, j + 2,
                         [t EXCEPT ![j] = 92, ![j + 1] = s[i]])
         ELSE escapeFill(s, i + 1, j + 1, [t EXCEPT ![j] = s[i]])

\* a plausible slip: ']' is left out of the second switch's case list
RECURSIVE escapeFillNoBracket(_, _, _, _)
escapeFillNoBracket(s, i, j, t) ==
    IF i > Len(s) THEN t
    ELSE IF s[i] \in {92, 34}
         THEN escapeFillNoBracket(s, i + 1, j + 2,
                                  [t EXCEPT ![j] = 92, ![j + 1] = s[i]])
         ELSE escapeFillNoBracket(s, i + 1, j + 1, [t EXCEPT ![j] = s[i]])

escapeSDParamNoBracket(s) ==
    IF escapeCountFrom(s, 1) = 0 THEN s
    ELSE escapeFillNoBracket(s, 1, 1, Rep(0, Len(s) + escapeCountFrom(s, 1)))

escapeSDParam(s) ==
    IF escapeCountFrom(s, 1) = 0 THEN s
    ELSE escapeFill(s, 1, 1, Rep(0, Len(s) + escapeCountFrom(s, 1)))

----------------------------------------------------------------------------
(* Inputs of the escapeSDParam runs *)

MaxEscLen == 3

\* '\\', '"', ']', 'a', '[' and a non-ASCII byte
EscAlphabet == {92, 34, 93, 97, 91, 200}

EscInputs == SeqsUpTo(EscAlphabet, MaxEscLen)

----------------------------------------------------------------------------
(* Go's UTF-8 decoding, as used by "for _, ch := range s" and by           *)
(* utf8.ValidString: an invalid or truncated encoding yields RuneError     *)
(* (U+FFFD) of width 1.                                                    *)

IsCont(s, i) == i <= Len(s) /\ s[i] >= 128 /\ s[i] <= 191

\* the rune starting at s[i]: [r |-> code point, w |-> width, ok |-> valid]
DecodeRune(s, i) ==
    LET b0 == s[i]
        bad == [r |-> 65533, w |-> 1, ok |-> FALSE]
    IN  IF b0 < 128 THEN [r |-> b0, w |-> 1, ok |-> TRUE]
        ELSE IF b0 >= 194 /\ b0 <= 223
        THEN IF IsCont(s, i + 1)
             THEN [r |-> (b0 - 192) * 64 + (s[i + 1] - 128), w |-> 2, ok |-> TRUE]
             ELSE bad
        ELSE IF b0 >= 224 /\ b0 <= 239
        THEN IF /\ IsCont(s, i + 1) /\ IsCont(s, i + 2)
                /\ (b0 = 224 => s[i + 1] >= 160)
                /\ (b0 = 237 => s[i + 1] <= 159)
             THEN [r |-> (b0 - 224) * 4096 + (s[i + 1] - 128) * 64 + (s[i + 2] - 128),
                   w |-> 3, ok |-> TRUE]
             ELSE bad
        ELSE IF b0 >= 240 /\ b0 <= 244
        THEN IF /\ IsCont(s, i + 1) /\ IsCont(s, i + 2) /\ IsCont(s, i + 3)
                /\ (b0 = 240 => s[i + 1] >= 144)
                /\ (b0 = 244 => s[i + 1] <= 143)
             THEN [r |-> (b0 - 240) * 262144 + (s[i + 1] - 128) * 4096
                          + (s[i + 2] - 128) * 64 + (s[i + 3] - 128),
                   w |-> 4, ok |-> TRUE]
             ELSE bad
        ELSE bad

\* The positions at which a left-to-right decoding of s starts a rune.  A
\* byte that is no continuation byte (0x80..0xBF) is never part of the rune
\* before it, so it starts one; a continuation byte starts one (an invalid
\* one) unless a valid rune that begins at most three bytes before covers it.
RuneStarts(s) ==
    { i \in 1..Len(s) :
        \/ s[i] < 128 \/ s[i] > 191
        \/ ~\E j \in (i - 3)..(i - 1) :
               j >= 1 /\ s[j] > 191 /\ j + DecodeRune(s, j).w > i }

\* utf8.ValidString: every rune of s decodes without error
ValidString(s) == \A i \in RuneStarts(s) : DecodeRune(s, i).ok

----------------------------------------------------------------------------
(* marshal.go: validation *)

allowLongSdNames == TRUE

HostnameMax == 255
AppNameMax == 48
ProcessIDMax == 128
MessageIDMax == 32
SdNameMax == 32
SeverityMax == 8
FacilityMax == 23

\* the error value of InvalidValue; "no error" is the empty sequence
InvalidValue(property, value) == <<[Property |-> property, Value |-> value]>>

NoError == <<>>

nilifyIdentity(x) == x

nilify(x) == IF x = <<>> THEN <<45>> ELSE x

\* a plausible slip: DEL (127) passes the upper bound
isPrintableUsASCIILax(s) ==
    \A i \in RuneStarts(s) :
        LET ch == DecodeRune(s, i).r IN ~(ch < 33 \/ ch > 127)

\* "for _, ch := range s": false at the first rune outside 33..126, true when
\* the loop ends, that is, true when no rune of s is outside 33..126
isPrintableUsASCII(s) ==
    \A i \in RuneStarts(s) :
        LET ch == DecodeRune(s, i).r IN ~(ch < 33 \/ ch > 126)

isValidSdName(s) ==
    IF ~allowLongSdNames /\ Len(s) > SdNameMax THEN FALSE
    ELSE \A i \in RuneStarts(s) :
             LET ch == DecodeRune(s, i).r
             IN  /\ ~(ch < 33 \/ ch > 126)
                 /\ ~(ch = 61 \/ ch = 93 \/ ch = 34)

\* the inner loop of assertValid over sdElement.Parameters
RECURSIVE assertValidParams(_, _)
assertValidParams(params, j) ==
    IF j > Len(params) THEN NoError
    ELSE IF ~isValidSdName(params[j].Name)
         THEN InvalidValue("StructuredData/Name", params[j].Name)
    ELSE IF ~ValidString(params[j].Value)
         THEN InvalidValue("StructuredData/Value", params[j].Value)
    ELSE assertValidParams(params, j + 1)

\* the outer loop of assertValid over m.StructuredData
RECURSIVE assertValidSD(_, _)
assertValidSD(sd, i) ==
    IF i > Len(sd) THEN NoError
    ELSE IF ~isValidSdName(sd[i].ID)
         THEN InvalidValue("StructuredData/ID", sd[i].ID)
    ELSE LET e == assertValidParams(sd[i].Parameters, 1)
         IN  IF e # NoError THEN e ELSE assertValidSD(sd, i + 1)

assertValid(msg) ==
    IF msg.Severity < 0 \/ msg.Severity > SeverityMax
    THEN InvalidValue("Severity", msg.Severity)
    ELSE IF msg.Facility < 0 \/ msg.Facility > FacilityMax
    THEN InvalidValue("Facility", msg.Facility)
    ELSE IF ~isPrintableUsASCII(msg.Hostname)
    THEN InvalidValue("Hostname", msg.Hostname)
    ELSE IF Len(msg.Hostname) > HostnameMax
    THEN InvalidValue("Hostname", msg.Hostname)
    ELSE IF ~isPrintableUsASCII(msg.AppName)
    THEN InvalidValue("AppName", msg.AppName)
    ELSE IF Len(msg.AppName) > AppNameMax
    THEN InvalidValue("AppName", msg.AppName)
    ELSE IF ~isPrintableUsASCII(msg.ProcessID)
    THEN InvalidValue("ProcessID", msg.ProcessID)
    ELSE IF Len(msg.ProcessID) > ProcessIDMax
    THEN InvalidValue("ProcessID", msg.ProcessID)
    ELSE IF ~isPrintableUsASCII(msg.MessageID)
    THEN InvalidValue("MessageID", msg.MessageID)
    ELSE IF Len(msg.MessageID) > MessageIDMax
    THEN InvalidValue("MessageID", msg.MessageID)
    ELSE assertValidSD(msg.StructuredData, 1)

----------------------------------------------------------------------------
(* marshal.go: encoding *)

\* one decimal digit as a byte
Digit(d) == 48 + d

RECURSIVE ItoaNat(_)
ItoaNat(n) == IF n < 10 THEN <<Digit(n)>> ELSE ItoaNat(n \div 10) \o <<Digit(n % 10)>>

\* the %d verb
Itoa(n) == IF n < 0 THEN <<45>> \o ItoaNat(0 - n) ELSE ItoaNat(n)

\* decimal, zero-padded to width w
RECURSIVE Pad(_, _)
Pad(n, w) == IF w = 0 THEN <<>> ELSE Pad(n \div 10, w - 1) \o <<Digit(n % 10)>>

RECURSIVE TrimZeros(_)
TrimZeros(ds) ==
    IF ds # <<>> /\ ds[Len(ds)] = 48 THEN TrimZeros(SubSeq(ds, 1, Len(ds) - 1)) ELSE ds

\* Timestamp.Format(time.RFC3339Nano), layout "2006-01-02T15:04:05.999999999Z07:00",
\* on the broken-down time [year, month, day, hour, min, sec, nsec, off]
\* (off: the zone offset in minutes)
FormatRFC3339Nano(ts) ==
    LET frac == IF ts.nsec = 0 THEN <<>> ELSE <<46>> \o TrimZeros(Pad(ts.nsec, 9))
        a    == IF ts.off < 0 THEN 0 - ts.off ELSE ts.off
        zone == IF ts.off = 0 THEN <<90>>
                ELSE <<(IF ts.off < 0 THEN 45 ELSE 43)>>
                     \o Pad(a \div 60, 2) \o <<58>> \o Pad(a % 60, 2)
    IN  Pad(ts.year, 4) \o <<45>> \o Pad(ts.month, 2) \o <<45>> \o Pad(ts.day, 2)
        \o <<84>> \o Pad(ts.hour, 2) \o <<58>> \o Pad(ts.min, 2) \o <<58>>
        \o Pad(ts.sec, 2) \o frac \o zone

\* a | b on non-negative integers
RECURSIVE BitOr(_, _)
BitOr(a, b) ==
    IF a = 0 THEN b
    ELSE IF b = 0 THEN a
    ELSE (IF a % 2 = 1 \/ b % 2 = 1 THEN 1 ELSE 0) + 2 * BitOr(a \div 2, b \div 2)

\* m.Severity|m.Facility<<3
PRI(severity, facility) == BitOr(severity, facility * 8)

\* the inner loop of MarshalBinary: fmt.Fprintf(b, " %s=\"%s\"", ...)
RECURSIVE writeParams(_, _, _)
writeParams(b, params, j) ==
    IF j > Len(params) THEN b
    ELSE writeParams(b \o <<32>> \o params[j].Name \o <<61, 34>>
                       \o escapeSDParam(params[j].Value) \o <<34>>,
                     params, j + 1)

\* the outer loop of MarshalBinary
RECURSIVE writeElements(_, _, _)
writeElements(b, sd, i) ==
    IF i > Len(sd) THEN b
    ELSE writeElements(
             writeParams(b \o <<91>> \o sd[i].ID, sd[i].Parameters, 1) \o <<93>>,
             sd, i + 1)

\* the result of MarshalBinary: [b |-> bytes, err |-> error]
MarshalBinary(msg) ==
    LET err == assertValid(msg)
    IN  IF err # NoError THEN [b |-> <<>>, err |-> err]
        ELSE LET b1 == <<60>> \o Itoa(PRI(msg.Severity, msg.Facility)) \o <<62, 49, 32>>
                       \o FormatRFC3339Nano(msg.Timestamp) \o <<32>>
                       \o nilify(msg.Hostname) \o <<32>>
                       \o nilify(msg.AppName) \o <<32>>
                       \o nilify(msg.ProcessID) \o <<32>>
                       \o nilify(msg.MessageID) \o <<32>>
                 b2 == IF Len(msg.StructuredData) = 0 THEN b1 \o <<45>> ELSE b1
                 b3 == writeElements(b2, msg.StructuredData, 1)
                 b4 == IF Len(msg.Message) > 0 THEN b3 \o <<32>> \o msg.Message ELSE b3
             IN  [b |-> b4, err |-> NoError]

----------------------------------------------------------------------------
(* Inputs of the MarshalBinary runs *)

MaxElems == 2

\* 2003-10-11T22:14:15.003Z, 1985-04-12T19:20:50.52-04:00, 2026-01-02T03:04:05+05:30
Timestamps ==
    { [year |-> 2003, month |-> 10, day |-> 11, hour |-> 22, min |-> 14, sec |-> 15,
       nsec |-> 3000000, off |-> 0],
      [year |-> 1985, month |-> 4, day |-> 12, hour |-> 19, min |-> 20, sec |-> 50,
       nsec |-> 520000000, off |-> 0 - 240],
      [year |-> 2026, month |-> 1, day |-> 2, hour |-> 3, min |-> 4, sec |-> 5,
       nsec |-> 0, off |-> 330] }

\* "", "su", "!~", " ", DEL, a lone byte 0xC8, "é" (0xC3 0xA9), "a\n"
HdrSamples ==
    { <<>>, <<115, 117>>, <<33, 126>>, <<32>>, <<127>>, <<200>>, <<195, 169>>,
      <<97, 10>> }

\* the samples, and a string at and one byte over the field's ceiling
HdrStrings(ceiling) == HdrSamples \cup {Rep(97, ceiling), Rep(97, ceiling + 1)}

\* k="v"
ParamKV == [Name |-> <<107>>, Value |-> <<118>>]
\* k2="a\b"c]d é"  (reserved bytes, a space, a two-byte rune)
ParamReserved ==
    [Name |-> <<107, 50>>,
     Value |-> <<97, 92, 98, 34, 99, 93, 100, 32, 195, 169>>]
\* e=""
ParamEmpty == [Name |-> <<101>>, Value |-> <<>>]

ElemSamples ==
    { [ID |-> <<120, 64, 49>>, Parameters |-> <<>>],                    \* [x@1]
      [ID |-> <<120, 64, 49>>, Parameters |-> <<ParamKV>>],
      [ID |-> <<121>>, Parameters |-> <<ParamReserved, ParamEmpty>>],
      [ID |-> Rep(97, SdNameMax), Parameters |-> <<ParamKV>>],
      [ID |-> Rep(97, SdNameMax + 1), Parameters |-> <<>>],
      [ID |-> <<121>>,
       Parameters |-> <<[Name |-> Rep(98, SdNameMax + 1), Value |-> <<118>>]>>],
      [ID |-> <<97, 61, 98>>, Parameters |-> <<>>],                     \* a=b
      [ID |-> <<121>>, Parameters |-> <<[Name |-> <<107, 93>>, Value |-> <<118>>]>>],
      [ID |-> <<121>>, Parameters |-> <<[Name |-> <<107>>, Value |-> <<200>>]>>] }

\* "", "hi", " x y" (a leading space), "]\n" and a lone byte 0xC8
Bodies == { <<>>, <<104, 105>>, <<32, 120, 32, 121>>, <<93, 10, 200>> }

\* the RFC's first example, with a short host name and body
BaseMessage ==
    [Severity |-> 2, Facility |-> 4,
     Timestamp |-> [year |-> 2003, month |-> 10, day |-> 11, hour |-> 22, min |-> 14,
                    sec |-> 15, nsec |-> 3000000, off |-> 0],
     Hostname |-> <<104, 111, 115, 116>>,       \* host
     AppName |-> <<115, 117>>,                  \* su
     ProcessID |-> <<>>,
     MessageID |-> <<73, 68, 52, 55>>,          \* ID47
     StructuredData |-> <<>>,
     Message |-> <<104, 105>>]                  \* hi

\* every severity and facility from one below to one above the accepted range
PriInputs ==
    { [BaseMessage EXCEPT !.Severity = s, !.Facility = f] :
        s \in (0 - 1)..(SeverityMax + 1), f \in (0 - 1)..(FacilityMax + 1) }

\* every combination of header strings, with a valid and an invalid severity
HeaderInputs ==
    { [BaseMessage EXCEPT !.Severity = s, !.Hostname = h, !.AppName = a,
                          !.ProcessID = p, !.MessageID = i] :
        s \in {2, SeverityMax + 1},
        h \in HdrStrings(HostnameMax), a \in HdrStrings(AppNameMax),
        p \in HdrStrings(ProcessIDMax), i \in HdrStrings(MessageIDMax) }

\* structured data and bodies, with a valid and an invalid host name
SDInputs ==
    { [BaseMessage EXCEPT !.StructuredData = sd, !.Message = body, !.Timestamp = ts,
                          !.Hostname = h, !.MessageID = i] :
        sd \in SeqsUpTo(ElemSamples, MaxElems), body \in Bodies, ts \in Timestamps,
        h \in {<<104, 111, 115, 116>>, <<32>>}, i \in {<<>>, <<73, 68, 52, 55>>} }

MessageInputs == PriInputs \cup HeaderInputs \cup SDInputs

----------------------------------------------------------------------------
(* The values of the variables a specification does not use *)

EscOff == [s |-> <<>>, t |-> <<>>, pc |-> "off"]
MarOff == [m |-> <<>>, res |-> [b |-> <<>>, err |-> NoError], pc |-> "off"]

----------------------------------------------------------------------------
(* SpecEscape: escapeSDParam applied to every input *)


EscapeCall ==
    /\ esc.pc = "ready"
    /\ esc' = [esc EXCEPT !.t = escapeSDParam(esc.s), !.pc = "done"]
    /\ UNCHANGED <<mar, ref, reflectionCache, procs, heap, last>>

(* SpecMarshal: MarshalBinary applied to every input message *)


MarshalCall ==
    /\ mar.pc = "ready"
    /\ mar' = [mar EXCEPT !.res = MarshalBinary(mar.m), !.pc = "done"]
    /\ UNCHANGED <<esc, ref, reflectionCache, procs, heap, last>>

----------------------------------------------------------------------------
(* reflect.go: reflectImpl *)
(* A type is [Pkg, Name, Fields]; a field is [Name, Tag, PkgPath], Tag     *)
(* being field.Tag.Get("log") and PkgPath empty for an exported field.     *)
(* Field indices are Go's: 0-based, -1 for "absent".                       *)

\* the string literals of reflect.go, as bytes
StrCrit == <<99, 114, 105, 116>>
StrInfo == <<105, 110, 102, 111>>
StrLocal0 == <<108, 111, 99, 97, 108, 48>>
StrLocal1 == <<108, 111, 99, 97, 108, 49>>
StrOmitempty == <<111, 109, 105, 116, 101, 109, 112, 116, 121>>
StrMessageTag == <<109, 101, 115, 115, 97, 103, 101>>
NameSeverity == <<83, 101, 118, 101, 114, 105, 116, 121>>
NameFacility == <<70, 97, 99, 105, 108, 105, 116, 121>>
NameTimestamp == <<84, 105, 109, 101, 115, 116, 97, 109, 112>>
NameHostname == <<72, 111, 115, 116, 110, 97, 109, 101>>
NameAppName == <<65, 112, 112, 78, 97, 109, 101>>
NameProcessID == <<80, 114, 111, 99, 101, 115, 115, 73, 68>>
NameMessageID == <<77, 101, 115, 115, 97, 103, 101, 73, 68>>
NameSDID == <<83, 68, 73, 68>>
NameMessage == <<77, 101, 115, 115, 97, 103, 101>>

\* the Severity and Facility values of the package's tables
Info == 6
Critical == 2
Local0 == 16
Local1 == 17

\* severityNames and facilityNames, restricted to the names the inputs use:
\* "crit" and "info"; "local0" and "local1"
severityNames == (StrCrit :> Critical) @@ (StrInfo :> Info)
facilityNames == (StrLocal0 :> Local0) @@ (StrLocal1 :> Local1)

defaultSeverity == Info
defaultFacility == Local0
\* "0@local"
defaultStructuredDataID == <<48, 64, 108, 111, 99, 97, 108>>
\* path.Base(os.Args[0]) of the running program: "app"
defaultAppName == <<97, 112, 112>>

\* strings.Split(s, ","), scanning from s[i] with the current part cur
RECURSIVE SplitComma(_, _, _)
SplitComma(s, i, cur) ==
    IF i > Len(s) THEN <<cur>>
    ELSE IF s[i] = 44 THEN <<cur>> \o SplitComma(s, i + 1, <<>>)
    ELSE SplitComma(s, i + 1, Append(cur, s[i]))

\* the regexp classes \d and \S (Go: \s is [\t\n\f\r ])
IsDigit(c) == c >= 48 /\ c <= 57
IsNonSpace(c) == c \notin {9, 10, 12, 13, 32}

\* the length of the longest run of digits, and of non-space bytes, of s from
\* s[i] on
RECURSIVE DigitRun(_, _)
DigitRun(s, i) == IF i <= Len(s) /\ IsDigit(s[i]) THEN 1 + DigitRun(s, i + 1) ELSE 0

RECURSIVE NonSpaceRun(_, _)
NonSpaceRun(s, i) ==
    IF i <= Len(s) /\ IsNonSpace(s[i]) THEN 1 + NonSpaceRun(s, i + 1) ELSE 0

\* sdRegexp.FindAllStringSubmatch(s, -1) for "^(\d+@\S+)( (.*))?$":
\* [ok |-> matched, id |-> group 1, name |-> group 3].  The greedy \d+ and \S+
\* take the whole run: a shorter run is followed by a byte of the same class,
\* which neither '@' nor ' ' nor the end of the text is.
sdRegexpMatch(s) ==
    LET d    == DigitRun(s, 1)
        k    == NonSpaceRun(s, d + 2)
        e    == d + 1 + k
        none == [ok |-> FALSE, id |-> <<>>, name |-> <<>>]
    IN  IF d = 0 THEN none
        ELSE IF d + 1 > Len(s) \/ s[d + 1] # 64 THEN none
        ELSE IF k = 0 THEN none
        ELSE IF e = Len(s) THEN [ok |-> TRUE, id |-> SubSeq(s, 1, e), name |-> <<>>]
        ELSE IF s[e + 1] = 32 /\ \A x \in (e + 2)..Len(s) : s[x] # 10
             THEN [ok |-> TRUE, id |-> SubSeq(s, 1, e),
                   name |-> SubSeq(s, e + 2, Len(s))]
        ELSE none

\* strings.ToLower of the one-byte string field.Name[0:1]; a byte that is not
\* ASCII is invalid UTF-8 on its own and maps to U+FFFD (0xEF 0xBF 0xBD)
ToLowerByte(c) ==
    IF c >= 65 /\ c <= 90 THEN <<c + 32>>
    ELSE IF c >= 128 THEN <<239, 191, 189>>
    ELSE <<c>>

\* the element ID of a field whose tag names none: ignores the SDID default
defaultSdIDIgnoringSDID(r) == defaultStructuredDataID

\* reflect.go:176-180
defaultSdID(r) ==
    IF r.SDIDDefault # <<>> THEN r.SDIDDefault ELSE defaultStructuredDataID

\* reflect.go:193-203: the loop over tagParts[1:], whose switch looks at
\* tagParts[1] in every iteration (tagParts is 1-based here: tagParts[2])
RECURSIVE attrLoop(_, _, _)
attrLoop(tagParts, k, fr) ==
    IF k > Len(tagParts) THEN [panic |-> "", fr |-> fr]
    ELSE IF tagParts[2] = StrOmitempty
         THEN attrLoop(tagParts, k + 1, [fr EXCEPT !.OmitEmpty = TRUE])
         ELSE [panic |-> "unknown tag", fr |-> fr]

\* the default branch of the switch on field.Name
reflectOtherField(r, field, fieldIndex) ==
    LET fieldTag == field.Tag
        tagParts == SplitComma(fieldTag, 1, <<>>)
    IN  IF fieldTag = <<>> /\ field.PkgPath # <<>> THEN [panic |-> "", r |-> r]
        ELSE IF Len(tagParts) > 1 /\ tagParts[1] = <<>> /\ tagParts[2] = StrMessageTag
        THEN [panic |-> "", r |-> [r EXCEPT !.MessageFieldIndex = fieldIndex]]
        ELSE
        LET fr0 == [FieldIndex |-> fieldIndex, OmitEmpty |-> FALSE,
                    FieldName |-> tagParts[1], SdID |-> defaultSdID(r)]
            mt  == sdRegexpMatch(fr0.FieldName)
            fr1 == IF mt.ok THEN [fr0 EXCEPT !.SdID = mt.id, !.FieldName = mt.name]
                   ELSE fr0
            fr2 == IF fr1.FieldName = <<>>
                   THEN [fr1 EXCEPT !.FieldName =
                            ToLowerByte(field.Name[1]) \o Tail(field.Name)]
                   ELSE fr1
            at  == IF Len(tagParts) > 1 THEN attrLoop(tagParts, 2, fr2)
                   ELSE [panic |-> "", fr |-> fr2]
        IN  IF at.panic # "" THEN [panic |-> at.panic, r |-> r]
            ELSE [panic |-> "",
                  r |-> [r EXCEPT !.StructuredDataFieldReflections = Append(@, at.fr)]]

\* one iteration of the loop over the fields: the switch on field.Name
reflectField(r, field, fieldIndex) ==
    LET fieldTag == field.Tag
        keep(x)  == [panic |-> "", r |-> x]
    IN  IF field.Name = NameSeverity
        THEN IF fieldTag # <<>> /\ fieldTag \notin DOMAIN severityNames
             THEN [panic |-> "invalid tag on Severity field", r |-> r]
             ELSE keep([r EXCEPT !.SeverityFieldIndex = fieldIndex,
                                 !.SeverityDefault =
                                     IF fieldTag # <<>> THEN severityNames[fieldTag] ELSE @])
        ELSE IF field.Name = NameFacility
        THEN IF fieldTag # <<>> /\ fieldTag \notin DOMAIN facilityNames
             THEN [panic |-> "invalid tag on Facility field", r |-> r]
             ELSE keep([r EXCEPT !.FacilityFieldIndex = fieldIndex,
                                 !.FacilityDefault =
                                     IF fieldTag # <<>> THEN facilityNames[fieldTag] ELSE @])
        ELSE IF field.Name = NameTimestamp
        THEN keep([r EXCEPT !.TimestampFieldIndex = fieldIndex])
        ELSE IF field.Name = NameHostname
        THEN keep([r EXCEPT !.HostnameFieldIndex = fieldIndex])
        ELSE IF field.Name = NameAppName
        THEN keep([r EXCEPT !.AppNameFieldIndex = fieldIndex,
                            !.AppNameDefault = IF fieldTag # <<>> THEN fieldTag ELSE @])
        ELSE IF field.Name = NameProcessID
        THEN keep([r EXCEPT !.ProcessIDFieldIndex = fieldIndex])
        ELSE IF field.Name = NameMessageID
        THEN keep([r EXCEPT !.MessageIDFieldIndex = fieldIndex,
                            !.MessageIDDefault = IF fieldTag # <<>> THEN fieldTag ELSE @])
        ELSE IF field.Name = NameSDID
        THEN keep([r EXCEPT !.SDIDDefault = IF fieldTag # <<>> THEN fieldTag ELSE @])
        ELSE IF field.Name = NameMessage
        THEN keep([r EXCEPT !.MessageFieldIndex = fieldIndex])
        ELSE reflectOtherField(r, field, fieldIndex)

\* the loop "for fieldIndex := 0; fieldIndex < t.NumField(); fieldIndex++";
\* a panic ends it
RECURSIVE reflectFields(_, _, _)
reflectFields(r, t, fieldIndex) ==
    IF fieldIndex >= Len(t.Fields) THEN [panic |-> "", r |-> r]
    ELSE LET st == reflectField(r, t.Fields[fieldIndex + 1], fieldIndex)
         IN  IF st.panic # "" THEN st ELSE reflectFields(st.r, t, fieldIndex + 1)

\* the result of reflectImpl(t): [panic |-> message or "", r |-> the reflection]
reflectImpl(t) ==
    reflectFields(
        [Type |-> t,
         SeverityFieldIndex |-> 0 - 1, SeverityDefault |-> defaultSeverity,
         FacilityFieldIndex |-> 0 - 1, FacilityDefault |-> defaultFacility,
         TimestampFieldIndex |-> 0 - 1, HostnameFieldIndex |-> 0 - 1,
         AppNameFieldIndex |-> 0 - 1, AppNameDefault |-> defaultAppName,
         ProcessIDFieldIndex |-> 0 - 1, MessageIDFieldIndex |-> 0 - 1,
         MessageIDDefault |-> t.Name, MessageFieldIndex |-> 0 - 1,
         SDIDDefault |-> <<>>, StructuredDataFieldReflections |-> <<>>],
        t, 0)

----------------------------------------------------------------------------
(* Inputs of the reflectImpl runs *)

MaxFields == 3

FieldSamples ==
    {
      \* SDID `log:"7@x"`
      [Name |-> NameSDID, Tag |-> <<55, 64, 120>>, PkgPath |-> <<>>],
      \* SDID `log:""`
      [Name |-> NameSDID, Tag |-> <<>>, PkgPath |-> <<>>],
      \* SDID `log:"9@y"`
      [Name |-> NameSDID, Tag |-> <<57, 64, 121>>, PkgPath |-> <<>>],
      \* Foo `log:"1@a b"`
      [Name |-> <<70, 111, 111>>, Tag |-> <<49, 64, 97, 32, 98>>, PkgPath |-> <<>>],
      \* Foo `log:""`
      [Name |-> <<70, 111, 111>>, Tag |-> <<>>, PkgPath |-> <<>>],
      \* bar `log:""` (unexported)
      [Name |-> <<98, 97, 114>>, Tag |-> <<>>, PkgPath |-> <<112>>],
      \* zed `log:"z"` (unexported)
      [Name |-> <<122, 101, 100>>, Tag |-> <<122>>, PkgPath |-> <<112>>],
      \* Bar `log:"b,omitempty"`
      [Name |-> <<66, 97, 114>>, Tag |-> <<98, 44, 111, 109, 105, 116, 101, 109, 112, 116, 121>>, PkgPath |-> <<>>],
      \* Baz `log:"c,omitempty,bogus"`
      [Name |-> <<66, 97, 122>>, Tag |-> <<99, 44, 111, 109, 105, 116, 101, 109, 112, 116, 121, 44, 98, 111, 103, 117, 115>>, PkgPath |-> <<>>],
      \* Baz `log:"c,bogus"`
      [Name |-> <<66, 97, 122>>, Tag |-> <<99, 44, 98, 111, 103, 117, 115>>, PkgPath |-> <<>>],
      \* Qux `log:"2@z,omitempty"`
      [Name |-> <<81, 117, 120>>, Tag |-> <<50, 64, 122, 44, 111, 109, 105, 116, 101, 109, 112, 116, 121>>, PkgPath |-> <<>>],
      \* Body `log:",message"`
      [Name |-> <<66, 111, 100, 121>>, Tag |-> <<44, 109, 101, 115, 115, 97, 103, 101>>, PkgPath |-> <<>>],
      \* Severity `log:"crit"`
      [Name |-> NameSeverity, Tag |-> <<99, 114, 105, 116>>, PkgPath |-> <<>>],
      \* Severity `log:"nope"`
      [Name |-> NameSeverity, Tag |-> <<110, 111, 112, 101>>, PkgPath |-> <<>>],
      \* Nl `log:"3@w a\nb"`
      [Name |-> <<78, 108>>, Tag |-> <<51, 64, 119, 32, 97, 10, 98>>, PkgPath |-> <<>>] }

\* the record types: every field list of at most MaxFields sample fields;
\* the type is named "T" (package "p")
TypeInputs ==
    { [Pkg |-> <<112>>, Name |-> <<84>>, Fields |-> fs] :
        fs \in SeqsUpTo(FieldSamples, MaxFields) }

RefOff == [t |-> [Pkg |-> <<>>, Name |-> <<>>, Fields |-> <<>>], panic |-> "",
           r |-> <<>>, pc |-> "off"]

(* SpecReflect: reflectImpl applied to every input type *)


\* r holds the returned reflection (a one-element sequence), or nothing after
\* a panic
ReflectImplCall ==
    /\ ref.pc = "ready"
    /\ LET res == reflectImpl(ref.t)
       IN  ref' = [ref EXCEPT !.panic = res.panic,
                              !.r = IF res.panic = "" THEN <<res.r>> ELSE <<>>,
                              !.pc = "done"]
    /\ UNCHANGED <<esc, mar, reflectionCache, procs, heap, last>>

----------------------------------------------------------------------------
(* reflect.go: Reflect and reflectionCache *)
(* A *reflection is [ptr |-> address, val |-> the reflection]: reflectImpl *)
(* returns the address of a fresh variable on every run.  A slice is the   *)
(* sequence of its elements.                                               *)

\* the types handed to Reflect: A (package p), a distinct A (package q), a
\* third A (package r), B, and C whose tag makes reflectImpl panic
TypeA1 == [Pkg |-> <<112>>, Name |-> <<65>>,
           Fields |-> <<[Name |-> <<70, 111, 111>>, Tag |-> <<>>, PkgPath |-> <<>>]>>]
TypeA2 == [Pkg |-> <<113>>, Name |-> <<65>>,
           Fields |-> <<[Name |-> <<70, 111, 111>>, Tag |-> <<49, 64, 97, 32, 98>>,
                         PkgPath |-> <<>>]>>]
TypeA3 == [Pkg |-> <<114>>, Name |-> <<65>>,
           Fields |-> <<[Name |-> NameMessage, Tag |-> <<>>, PkgPath |-> <<>>]>>]
TypeB == [Pkg |-> <<112>>, Name |-> <<66>>,
           Fields |-> <<[Name |-> NameSDID, Tag |-> <<55, 64, 120>>, PkgPath |-> <<>>],
                        [Name |-> <<70, 111, 111>>, Tag |-> <<>>, PkgPath |-> <<>>]>>]
TypeC == [Pkg |-> <<112>>, Name |-> <<67>>,
           Fields |-> <<[Name |-> <<66, 97, 122>>, Tag |-> <<99, 44, 98, 111, 103, 117, 115>>,
                         PkgPath |-> <<>>]>>]

CacheTypes == {TypeA1, TypeA2, TypeA3, TypeB, TypeC}

\* the goroutines that call Reflect concurrently
Procs == {1, 2}

MaxCalls == 3
MaxSeqCalls == 5

\* reflectionList, ok := reflectionCache[name]
mapLookup(cache, name) ==
    IF name \in DOMAIN cache THEN [list |-> cache[name], ok |-> TRUE]
    ELSE [list |-> <<>>, ok |-> FALSE]

\* reflectionCache[name] = list
mapStore(cache, name, list) == (name :> list) @@ cache

\* a lookup by name alone: the first reflection of the list, whatever its type
findReflectionByNameOnly(list, t) == IF list = <<>> THEN <<>> ELSE <<list[1]>>

\* the loop "for _, r := range reflectionList { if r.Type == t { return r } }":
\* the first reflection of type t as a one-element sequence, or <<>>
findReflection(list, t) ==
    LET hits == {i \in 1..Len(list) : list[i].val.Type = t}
    IN  IF hits = {} THEN <<>>
        ELSE <<list[CHOOSE i \in hits : \A j \in hits : i <= j]>>

\* every *reflection the cache holds
Entries(cache) ==
    UNION {{<<n, cache[n][i]>> : i \in 1..Len(cache[n])} : n \in DOMAIN cache}

HeapInit == [next |-> 1, runs |-> [t \in CacheTypes |-> 0], calls |-> 0, fatal |-> FALSE]

ProcIdle == [pc |-> "idle", t |-> TypeA1, seen |-> <<>>, reflectionList |-> <<>>,
             r |-> <<>>]
ProcsOff == [p \in Procs |-> [ProcIdle EXCEPT !.pc = "off"]]
LastOff == [n |-> 0, t |-> TypeA1, ret |-> <<>>, panicked |-> FALSE,
            computed |-> FALSE]

----------------------------------------------------------------------------
(* SpecSeq: Reflect calls one after the other, each run to completion *)

InitSeq ==
    /\ esc = EscOff
    /\ mar = MarOff
    /\ ref = RefOff
    /\ reflectionCache = <<>>
    /\ procs = ProcsOff
    /\ heap = HeapInit
    /\ last = LastOff

\* one whole call Reflect(t)
ReflectSeq(t) ==
    /\ last.n < MaxSeqCalls
    /\ LET name  == t.Name
           look  == mapLookup(reflectionCache, name)
           found == IF look.ok THEN findReflection(look.list, t) ELSE <<>>
           res   == reflectImpl(t)
           r     == [ptr |-> heap.next, val |-> res.r]
       IN  IF found # <<>>
           THEN /\ last' = [n |-> last.n + 1, t |-> t, ret |-> found,
                            panicked |-> FALSE, computed |-> FALSE]
                /\ UNCHANGED <<reflectionCache, heap>>
           ELSE IF res.panic # ""
           THEN /\ last' = [n |-> last.n + 1, t |-> t, ret |-> <<>>,
                            panicked |-> TRUE, computed |-> TRUE]
                /\ heap' = [heap EXCEPT !.runs[t] = @ + 1]
                /\ UNCHANGED reflectionCache
           ELSE /\ last' = [n |-> last.n + 1, t |-> t, ret |-> <<r>>,
                            panicked |-> FALSE, computed |-> TRUE]
                /\ heap' = [heap EXCEPT !.runs[t] = @ + 1, !.next = @ + 1]
                /\ reflectionCache' =
                       mapStore(reflectionCache, name,
                                IF look.ok THEN Append(look.list, r) ELSE <<r>>)
    /\ UNCHANGED <<esc, mar, ref, procs>>

----------------------------------------------------------------------------
(* SpecCache: goroutines calling Reflect concurrently.  Reflect takes no   *)
(* lock, and a Go map access is not atomic: a lookup and a store each      *)
(* begin and end, and other goroutines run in between.                     *)

InitCache ==
    /\ esc = EscOff
    /\ mar = MarOff
    /\ ref = RefOff
    /\ reflectionCache = <<>>
    /\ procs = [p \in Procs |-> ProcIdle]
    /\ heap = HeapInit
    /\ last = LastOff

Reading(p) == procs[p].pc = "lookupEnd"
Writing(p) == procs[p].pc \in {"storeFirstEnd", "storeAppendEnd"}

\* goroutine p is in the middle of a map access that races with another
\* goroutine's: one of the two is a store
Races(p) ==
    \E q \in Procs \ {p} :
        \/ Writing(p) /\ (Reading(q) \/ Writing(q))
        \/ Reading(p) /\ Writing(q)

\* goroutine p enters Reflect(t)
Call(p, t) ==
    /\ ~heap.fatal
    /\ procs[p].pc = "idle"
    /\ heap.calls < MaxCalls
    /\ procs' = [procs EXCEPT ![p] = [ProcIdle EXCEPT !.pc = "lookup", !.t = t]]
    /\ heap' = [heap EXCEPT !.calls = @ + 1]
    /\ UNCHANGED <<esc, mar, ref, reflectionCache, last>>

\* reflect.go:75, the map read begins
LookupBegin(p) ==
    /\ ~heap.fatal
    /\ procs[p].pc = "lookup"
    /\ procs' = [procs EXCEPT ![p].pc = "lookupEnd",
                              ![p].seen = <<mapLookup(reflectionCache, procs[p].t.Name)>>]
    /\ UNCHANGED <<esc, mar, ref, reflectionCache, heap, last>>

\* reflect.go:75-86, the map read ends and the list is searched.  A read
\* that a store overlapped yields the map's value before or after the store.
LookupEnd(p) ==
    /\ ~heap.fatal
    /\ procs[p].pc = "lookupEnd"
    /\ \E look \in {procs[p].seen[1], mapLookup(reflectionCache, procs[p].t.Name)} :
         LET found == IF look.ok THEN findReflection(look.list, procs[p].t) ELSE <<>>
         IN  procs' = [procs EXCEPT
                 ![p].seen = <<>>,
                 ![p].reflectionList = look.list,
                 ![p].r = found,
                 ![p].pc = IF ~look.ok THEN "implFirst"
                           ELSE IF found # <<>> THEN "return"
                           ELSE "implAppend"]
    /\ UNCHANGED <<esc, mar, ref, reflectionCache, heap, last>>

\* reflect.go:77 and :87, r := reflectImpl(t); a panic ends the call
Impl(p) ==
    /\ ~heap.fatal
    /\ procs[p].pc \in {"implFirst", "implAppend"}
    /\ LET t   == procs[p].t
           res == reflectImpl(t)
       IN  IF res.panic # ""
           THEN /\ procs' = [procs EXCEPT ![p] = ProcIdle]
                /\ heap' = [heap EXCEPT !.runs[t] = @ + 1]
           ELSE /\ procs' = [procs EXCEPT
                       ![p].r = <<[ptr |-> heap.next, val |-> res.r]>>,
                       ![p].pc = IF procs[p].pc = "implFirst" THEN "storeFirst"
                                 ELSE "storeAppend"]
                /\ heap' = [heap EXCEPT !.runs[t] = @ + 1, !.next = @ + 1]
    /\ UNCHANGED <<esc, mar, ref, reflectionCache, last>>

\* reflect.go:78 and :88, the map store begins
StoreBegin(p) ==
    /\ ~heap.fatal
    /\ procs[p].pc \in {"storeFirst", "storeAppend"}
    /\ procs' = [procs EXCEPT ![p].pc = IF procs[p].pc = "storeFirst"
                                         THEN "storeFirstEnd" ELSE "storeAppendEnd"]
    /\ UNCHANGED <<esc, mar, ref, reflectionCache, heap, last>>

\* reflect.go:78 and :88, the map store ends: the new list is in the map
StoreEnd(p) ==
    /\ ~heap.fatal
    /\ Writing(p)
    /\ reflectionCache' =
           mapStore(reflectionCache, procs[p].t.Name,
                    IF procs[p].pc = "storeFirstEnd" THEN procs[p].r
                    ELSE Append(procs[p].reflectionList, procs[p].r[1]))
    /\ procs' = [procs EXCEPT ![p].pc = "return"]
    /\ UNCHANGED <<esc, mar, ref, heap, last>>

\* the Go runtime notices a racing map access ("concurrent map writes",
\* "concurrent map read and map write") and ends the program; it may as well
\* not notice, and then the accesses end as above
Throw(p) ==
    /\ ~heap.fatal
    /\ Races(p)
    /\ heap' = [heap EXCEPT !.fatal = TRUE]
    /\ UNCHANGED <<esc, mar, ref, reflectionCache, procs, last>>

\* reflect.go:79, :84, :89, return r
Return(p) ==
    /\ ~heap.fatal
    /\ procs[p].pc = "return"
    /\ procs' = [procs EXCEPT ![p] = ProcIdle]
    /\ UNCHANGED <<esc, mar, ref, reflectionCache, heap, last>>

----------------------------------------------------------------------------
(* The specifications *)

InitEscape ==
    /\ esc \in {[s |-> s, t |-> <<>>, pc |-> "ready"] : s \in EscInputs}
    /\ mar = MarOff
    /\ ref = RefOff
    /\ reflectionCache = <<>>
    /\ procs = ProcsOff
    /\ heap = HeapInit
    /\ last = LastOff

InitMarshal ==
    /\ esc = EscOff
    /\ mar \in {[m |-> msg, res |-> [b |-> <<>>, err |-> NoError], pc |-> "ready"] :
                  msg \in MessageInputs}
    /\ ref = RefOff
    /\ reflectionCache = <<>>
    /\ procs = ProcsOff
    /\ heap = HeapInit
    /\ last = LastOff

InitReflect ==
    /\ esc = EscOff
    /\ mar = MarOff
    /\ ref \in {[t |-> t, panic |-> "", r |-> <<>>, pc |-> "ready"] : t \in TypeInputs}
    /\ reflectionCache = <<>>
    /\ procs = ProcsOff
    /\ heap = HeapInit
    /\ last = LastOff

NextEscape == EscapeCall
NextMarshal == MarshalCall
NextReflect == ReflectImplCall
NextSeq == \E t \in CacheTypes : ReflectSeq(t)
NextCache ==
    \E p \in Procs :
        \/ \E t \in CacheTypes : Call(p, t)
        \/ LookupBegin(p)
        \/ LookupEnd(p)
        \/ Impl(p)
        \/ StoreBegin(p)
        \/ StoreEnd(p)
        \/ Throw(p)
        \/ Return(p)

SpecEscape == InitEscape /\ [][NextEscape]_vars
SpecMarshal == InitMarshal /\ [][NextMarshal]_vars
SpecReflect == InitReflect /\ [][NextReflect]_vars
SpecSeq == InitSeq /\ [][NextSeq]_vars
SpecCache == InitCache /\ [][NextCache]_vars

----------------------------------------------------------------------------
(* Claims about escapeSDParam (SpecEscape) *)

\* the number of reserved bytes among the first i bytes of s
ReservedUpTo(s, i) == Cardinality({k \in 1..i : s[k] \in {92, 34, 93}})

\* removing the escaping backslashes: a backslash is dropped and the byte
\* after it is kept as it is
RECURSIVE Unescape(_)
Unescape(u) ==
    IF u = <<>> THEN <<>>
    ELSE IF u[1] = 92 /\ Len(u) >= 2 THEN <<u[2]>> \o Unescape(SubSeq(u, 3, Len(u)))
    ELSE <<u[1]>> \o Unescape(Tail(u))

\* C6: escapeSDParam(s) is s with one backslash inserted immediately before
\* each backslash, double quote and closing bracket, every byte of s kept in
\* order: byte i of s lands at position i + (reserved bytes up to i), a
\* backslash stands right before it exactly when it is reserved, the length is
\* len(s) + the number of reserved bytes, the result is s when s has no
\* reserved byte, and unescaping recovers s.
C6_EscapeInsertsBackslashes ==
    esc.pc = "done" =>
        /\ Len(esc.t) = Len(esc.s) + ReservedUpTo(esc.s, Len(esc.s))
        /\ \A i \in 1..Len(esc.s) :
               LET pos == i + ReservedUpTo(esc.s, i)
               IN  /\ pos <= Len(esc.t)
                   /\ esc.t[pos] = esc.s[i]
                   /\ (esc.s[i] \in {92, 34, 93} => esc.t[pos - 1] = 92)
        /\ (ReservedUpTo(esc.s, Len(esc.s)) = 0 => esc.t = esc.s)
        /\ Unescape(esc.t) = esc.s

\* an input with all three reserved bytes has been escaped
C6_Witness ==
    /\ esc.pc = "done"
    /\ esc.s = <<92, 34, 93>>
    /\ esc.t = <<92, 92, 92, 34, 92, 93>>

----------------------------------------------------------------------------
(* Claims about MarshalBinary (SpecMarshal) *)

\* s has a byte outside printable US-ASCII, or is longer than its ceiling
HeaderViolates(s, ceiling) ==
    \/ \E i \in 1..Len(s) : s[i] < 33 \/ s[i] > 126
    \/ Len(s) > ceiling

\* the field of msg that the error property names violates its constraint
FieldViolates(msg, property) ==
    \/ property = "Severity" /\ (msg.Severity < 0 \/ msg.Severity > 8)
    \/ property = "Facility" /\ (msg.Facility < 0 \/ msg.Facility > 23)
    \/ property = "Hostname" /\ HeaderViolates(msg.Hostname, 255)
    \/ property = "AppName" /\ HeaderViolates(msg.AppName, 48)
    \/ property = "ProcessID" /\ HeaderViolates(msg.ProcessID, 128)
    \/ property = "MessageID" /\ HeaderViolates(msg.MessageID, 32)

HeaderProperties ==
    {"Severity", "Facility", "Hostname", "AppName", "ProcessID", "MessageID"}

\* C4: a Message whose Severity is outside [0,8], whose Facility is outside
\* [0,23], or one of whose Hostname/AppName/ProcessID/MessageID has a byte
\* outside 33..126 or exceeds 255/48/128/32 bytes, is rejected: MarshalBinary
\* returns an invalid-value error whose Property names a field that violates
\* its constraint, and no bytes.
C4_InvalidHeaderRejected ==
    (mar.pc = "done" /\ \E q \in HeaderProperties : FieldViolates(mar.m, q)) =>
        /\ mar.res.err # NoError
        /\ mar.res.b = <<>>
        /\ FieldViolates(mar.m, mar.res.err[1].Property)

\* a valid severity and facility, a host name of a two-byte rune, and an
\* AppName one byte over its ceiling: the error names Hostname
C4_Witness ==
    /\ mar.pc = "done"
    /\ mar.m.Severity = 2
    /\ mar.m.Hostname = <<195, 169>>
    /\ Len(mar.m.AppName) = 49
    /\ mar.res.err # NoError
    /\ mar.res.err[1].Property = "Hostname"
    /\ mar.res.b = <<>>

\* the position of the first space of s at or after i, or 0
FirstSpace(s, i) ==
    LET sp == {k \in i..Len(s) : s[k] = 32}
    IN  IF sp = {} THEN 0 ELSE CHOOSE k \in sp : \A j \in sp : k <= j

\* s cut at its first n spaces: n space-free fields and the rest, or <<>>
\* when s has fewer than n spaces
RECURSIVE Fields(_, _)
Fields(s, n) ==
    IF n = 0 THEN <<s>>
    ELSE LET k == FirstSpace(s, 1)
         IN  IF k = 0 THEN <<>>
             ELSE LET rest == Fields(SubSeq(s, k + 1, Len(s)), n - 1)
                  IN  IF rest = <<>> THEN <<>>
                      ELSE <<SubSeq(s, 1, k - 1)>> \o rest

\* "-" for an empty value, else the raw value
NilOrRaw(x) == IF Len(x) = 0 THEN <<45>> ELSE x

\* the value with a backslash before each '\\', '"' and ']'
Escaped(v) ==
    Concat([i \in 1..Len(v) |->
               IF v[i] \in {92, 34, 93} THEN <<92, v[i]>> ELSE <<v[i]>>])

\* [ID name="escaped-value" ...]
ElementText(e) ==
    <<91>> \o e.ID
    \o Concat([j \in 1..Len(e.Parameters) |->
                  <<32>> \o e.Parameters[j].Name \o <<61, 34>>
                  \o Escaped(e.Parameters[j].Value) \o <<34>>])
    \o <<93>>

\* "-" for no element, else the elements in list order with no separator
StructuredDataText(sd) ==
    IF Len(sd) = 0 THEN <<45>>
    ELSE Concat([i \in 1..Len(sd) |-> ElementText(sd[i])])

\* C5: the output of MarshalBinary for a valid Message is
\* "<PRI>1 TIMESTAMP HOST APPNAME PROCID MSGID SD", then " MESSAGE" only when
\* the body is non-empty: cut at its first six spaces it gives the six header
\* fields, HOST to MSGID being "-" or the raw value, and the rest is the
\* structured data ("-", or the elements in order without separator) followed
\* by one space and the body, or by nothing when the body is empty (then the
\* output does not end in a space).
C5_WireFormat ==
    (mar.pc = "done" /\ mar.res.err = NoError) =>
        LET f == Fields(mar.res.b, 6)
        IN  /\ Len(f) = 7
            /\ f[1] = <<60>> \o Itoa(PRI(mar.m.Severity, mar.m.Facility)) \o <<62, 49>>
            /\ f[2] = FormatRFC3339Nano(mar.m.Timestamp)
            /\ f[3] = NilOrRaw(mar.m.Hostname)
            /\ f[4] = NilOrRaw(mar.m.AppName)
            /\ f[5] = NilOrRaw(mar.m.ProcessID)
            /\ f[6] = NilOrRaw(mar.m.MessageID)
            /\ f[7] = StructuredDataText(mar.m.StructuredData)
                      \o (IF Len(mar.m.Message) = 0 THEN <<>>
                          ELSE <<32>> \o mar.m.Message)
            /\ (Len(mar.m.Message) = 0 => mar.res.b[Len(mar.res.b)] # 32)

\* two elements, the second with a value that needs escaping, an empty
\* MessageID and an empty body have been encoded
C5_Witness ==
    /\ mar.pc = "done"
    /\ mar.res.err = NoError
    /\ Len(mar.m.StructuredData) = 2
    /\ mar.m.StructuredData[2].Parameters = <<ParamReserved, ParamEmpty>>
    /\ mar.m.MessageID = <<>>
    /\ mar.m.Message = <<>>
    /\ mar.res.b[Len(mar.res.b)] = 93

\* msg has an element ID or a parameter name of more than 32 bytes
HasLongSdName(msg) ==
    \E i \in 1..Len(msg.StructuredData) :
        \/ Len(msg.StructuredData[i].ID) > 32
        \/ \E j \in 1..Len(msg.StructuredData[i].Parameters) :
               Len(msg.StructuredData[i].Parameters[j].Name) > 32

\* C7: a Message with a structured-data element ID or parameter name longer
\* than 32 characters is rejected with an invalid-value error and no bytes.
C7_LongSdNameRejected ==
    (mar.pc = "done" /\ HasLongSdName(mar.m)) =>
        (mar.res.err # NoError /\ mar.res.b = <<>>)

\* C10: the PRI written identifies the (Severity, Facility) pair: no other
\* pair that passes validation is written as the same "<PRI>".
C10_PriIdentifiesPair ==
    (mar.pc = "done" /\ mar.res.err = NoError) =>
        \A s \in 0..8, f \in 0..23 :
            (s # mar.m.Severity \/ f # mar.m.Facility) =>
                LET h == <<60>> \o Itoa(PRI(s, f)) \o <<62>>
                IN  SubSeq(mar.res.b, 1, Len(h)) # h

----------------------------------------------------------------------------
(* Claims about reflectImpl (SpecReflect) *)

RoleNames ==
    {NameSeverity, NameFacility, NameTimestamp, NameHostname, NameAppName,
     NameProcessID, NameMessageID, NameSDID, NameMessage}

\* the part of the tag before its first comma, and the attributes after it
TagNamePart(tag) ==
    LET commas == {k \in 1..Len(tag) : tag[k] = 44}
    IN  IF commas = {} THEN tag
        ELSE SubSeq(tag, 1, (CHOOSE k \in commas : \A j \in commas : k <= j) - 1)

TagAttributes(tag) == Tail(SplitComma(tag, 1, <<>>))

\* the field is classified as a structured-data parameter: it has no role
\* name, it is exported or tagged, and its tag does not mark the message body
IsStructuredDataField(field) ==
    /\ field.Name \notin RoleNames
    /\ ~(field.Tag = <<>> /\ field.PkgPath # <<>>)
    /\ ~(/\ TagNamePart(field.Tag) = <<>>
         /\ TagAttributes(field.Tag) # <<>>
         /\ TagAttributes(field.Tag)[1] = StrMessageTag)

\* C8: when a field classified as a structured-data parameter has a tag
\* attribute, at any position after the name part, that is not "omitempty",
\* reflectImpl panics instead of returning a FieldMap.
C8_UnknownAttributePanics ==
    (/\ ref.pc = "done"
     /\ \E i \in 1..Len(ref.t.Fields) :
            /\ IsStructuredDataField(ref.t.Fields[i])
            /\ \E k \in 1..Len(TagAttributes(ref.t.Fields[i].Tag)) :
                   TagAttributes(ref.t.Fields[i].Tag)[k] # StrOmitempty)
    => ref.panic # ""

\* the ends e of an element ID s[1..e] in a name part of the form: digits,
\* '@', a non-whitespace token, then nothing or a space and a one-line name
PatternIdEnds(s) ==
    { e \in 1..Len(s) :
        \E d \in 1..(e - 2) :
            /\ \A k \in 1..d : s[k] \in 48..57
            /\ s[d + 1] = 64
            /\ \A k \in (d + 2)..e : s[k] \notin {9, 10, 12, 13, 32}
            /\ \/ e = Len(s)
               \/ s[e + 1] = 32 /\ \A k \in (e + 2)..Len(s) : s[k] # 10 }

\* the SDID fields with a non-empty tag declared before field i
SdidFieldsBefore(fields, i) ==
    {j \in 1..(i - 1) : fields[j].Name = NameSDID /\ fields[j].Tag # <<>>}

\* C9: the descriptors are in field declaration order, and the element ID of
\* each is the ID of its own tag when the tag's name part matches the
\* element-ID pattern, else the non-empty default of the most recent SDID
\* field declared before it, else "0@local"; an SDID field declared after
\* the field does not change it.
C9_ElementIdSelection ==
    (ref.pc = "done" /\ ref.panic = "") =>
        LET ds     == ref.r[1].StructuredDataFieldReflections
            fields == ref.t.Fields
        IN  /\ \A k \in 1..(Len(ds) - 1) : ds[k].FieldIndex < ds[k + 1].FieldIndex
            /\ \A k \in 1..Len(ds) :
                   LET i     == ds[k].FieldIndex + 1
                       part  == TagNamePart(fields[i].Tag)
                       ends  == PatternIdEnds(part)
                       sdids == SdidFieldsBefore(fields, i)
                   IN  /\ IsStructuredDataField(fields[i])
                       /\ ds[k].SdID =
                              IF ends # {}
                              THEN SubSeq(part, 1, CHOOSE e \in ends : TRUE)
                              ELSE IF sdids # {}
                              THEN fields[CHOOSE j \in sdids :
                                              \A x \in sdids : x <= j].Tag
                              ELSE <<48, 64, 108, 111, 99, 97, 108>>

\* SDID `log:"7@x"`, Foo, SDID `log:"9@y"`: Foo's element ID is 7@x
C9_Witness ==
    /\ ref.pc = "done"
    /\ ref.panic = ""
    /\ Len(ref.t.Fields) = 3
    /\ ref.t.Fields[1].Name = NameSDID
    /\ ref.t.Fields[1].Tag = <<55, 64, 120>>
    /\ ref.t.Fields[3].Name = NameSDID
    /\ ref.t.Fields[3].Tag = <<57, 64, 121>>
    /\ Len(ref.r[1].StructuredDataFieldReflections) = 1
    /\ ref.r[1].StructuredDataFieldReflections[1].SdID = <<55, 64, 120>>

----------------------------------------------------------------------------
(* Claims about Reflect and the cache (SpecCache, SpecSeq) *)

\* C1: no store into the cache map by one goroutine overlaps a lookup or a
\* store of the map by another goroutine.
C1_NoOverlappingMapAccess ==
    \A p \in Procs : \A q \in Procs \ {p} :
        Writing(p) => ~(Reading(q) \/ Writing(q))

\* the cache entries (name, *reflection) whose reflection is of type t
StoredFor(cache, t) == {e \in Entries(cache) : e[2].val.Type = t}

\* C2: in a sequence of completed Reflect calls, a call for a type with no
\* stored FieldMap runs reflectImpl once and stores its result as the type's
\* only entry; a call for a type with a stored FieldMap returns that very
\* entry, runs reflectImpl for no type and leaves the cache as it is; the
\* FieldMap returned is of the type asked for, also among types of one name,
\* and the entries of the other types stay.
C2_ComputeOnceThenReuse ==
    [][ (last'.n = last.n + 1 /\ ~last'.panicked) =>
          LET t == last'.t
          IN  /\ last'.ret # <<>>
              /\ last'.ret[1].val.Type = t
              /\ IF StoredFor(reflectionCache, t) = {}
                 THEN /\ heap'.runs[t] = heap.runs[t] + 1
                      /\ StoredFor(reflectionCache', t) = {<<t.Name, last'.ret[1]>>}
                 ELSE /\ heap'.runs[t] = heap.runs[t]
                      /\ heap.runs[t] = 1
                      /\ StoredFor(reflectionCache, t) = {<<t.Name, last'.ret[1]>>}
                      /\ reflectionCache' = reflectionCache
              /\ \A u \in CacheTypes \ {t} :
                     /\ heap'.runs[u] = heap.runs[u]
                     /\ StoredFor(reflectionCache', u) = StoredFor(reflectionCache, u)
      ]_vars

\* the second Reflect of the second type named A returned its stored
\* FieldMap, found behind the other A's in the list, without a reflectImpl run
C2_Witness ==
    /\ last.t = TypeA2
    /\ ~last.computed
    /\ ~last.panicked
    /\ heap.runs[TypeA2] = 1
    /\ <<65>> \in DOMAIN reflectionCache
    /\ Len(reflectionCache[<<65>>]) >= 2
    /\ reflectionCache[<<65>>][1].val.Type = TypeA1
    /\ last.ret = <<reflectionCache[<<65>>][2]>>
    /\ last.ret[1].val.Type = TypeA2

\* C3: an entry written into the cache is present and unchanged in every
\* later state, whatever the interleaving of the Reflect calls.
C3_StoredEntryStays ==
    [][Entries(reflectionCache) \subseteq Entries(reflectionCache')]_vars

====
